---------------------------- MODULE Spec2Model ----------------------------
(***************************************************************************)
(* Model of the Risk-Dashboard ingestion and storage subsystem:            *)
(*   src/data_storage.py      DatabaseManager (SQLite table investment_data)*)
(*   src/webhook_receiver.py  FastAPI app: GET /, POST /webhook, GET /health*)
(*   src/dashboard.py         load_data, exit price column                 *)
(*   src/main.py              Flask app: GET /health, POST /alert          *)
(*                                                                         *)
(* Floats are modelled as records [nan, v] with v an integer; a timestamp  *)
(* (CURRENT_TIMESTAMP, one-second resolution) is the integer value of the  *)
(* clock; a symbol is the sequence of its character codes.                 *)
(***************************************************************************)
EXTENDS Integers, Sequences, FiniteSets

\* ------------------------------------------------------------------ bounds
\* rows written, committed or not
MaxRows == 2

\* ------------------------------------------------------------------ values
Threads == {1, 2}

F(n) == [nan |-> FALSE, v |-> n]
NaN == [nan |-> TRUE, v |-> 0]

\* " ", "A", "B" as character codes
Symbols == {<<32>>, <<65>>, <<66>>}
\* (price, atr) pairs: a zero price, a price that is not a number, a negative
\* atr, and two valid pairs
Quotes == {<<F(0), F(0)>>, <<NaN, F(0)>>, <<F(2), F(-1)>>,
           <<F(1), F(1)>>, <<F(2), F(0)>>}
WebhookData ==
    {[symbol |-> s, price |-> q[1], atr |-> q[2]] : s \in Symbols, q \in Quotes}

\* limit: Optional[int]; <<>> is None, <<n>> is the integer n
Limits == {<<>>, <<-1>>, <<0>>, <<1>>, <<2>>}

VARIABLES
    rows,    \* committed rows of investment_data, in rowid order
    now,     \* the clock CURRENT_TIMESTAMP reads
    conn,    \* conn[t]: thread t has its thread-local connection
    txn,     \* txn[t]: rows written on t's connection and not yet committed
    inflight,\* inflight[t]: <<d>> between the INSERT of payload d and
             \* conn.commit() in insert_data, <<>> otherwise
    ret,     \* the operation that completed last and what it returned (out)
    acked    \* payloads of the insert_data calls that returned True, in order

vars == <<rows, now, conn, txn, inflight, ret, acked>>

\* ------------------------------------------------------------ float compare
\* Python float comparison: every comparison with NaN is False
FLe(a, n) == ~a.nan /\ a.v <= n
FLt(a, n) == ~a.nan /\ a.v < n

\* ------------------------------------------------------------- collation
\* BINARY collation: byte-wise lexicographic order
RECURSIVE SymLess(_, _)
SymLess(a, b) ==
    IF b = <<>> THEN FALSE
    ELSE IF a = <<>> THEN TRUE
    ELSE IF Head(a) # Head(b) THEN Head(a) < Head(b)
    ELSE SymLess(Tail(a), Tail(b))

\* ------------------------------------------------------------------ table
Range(s) == {s[i] : i \in 1..Len(s)}

\* id INTEGER PRIMARY KEY AUTOINCREMENT
NextId(R) ==
    IF R = <<>> THEN 1
    ELSE 1 + (CHOOSE m \in {r.id : r \in Range(R)} :
                \A r \in Range(R) : r.id <= m)

\* price REAL NOT NULL, atr REAL NOT NULL: sqlite3 binds a NaN as NULL
NotNullOk(d) == ~d.price.nan /\ ~d.atr.nan

\* the row INSERT INTO investment_data (symbol, price, atr) writes
NewRow(R, d, ts) ==
    [id |-> NextId(R), symbol |-> d.symbol, price |-> d.price.v,
     atr |-> d.atr.v, timestamp |-> ts]

\* SELECT symbol, price, atr, timestamp
Project(r) ==
    [symbol |-> r.symbol, price |-> r.price, atr |-> r.atr,
     timestamp |-> r.timestamp]

\* what a statement on t's connection reads: committed rows and its own
\* uncommitted ones
Visible(t) == rows \o txn[t]

\* faulty variant: INSERT does not wait for the write lock
NoWriteLock(t) == FALSE

\* another connection holds the write lock of the database file
OthersHoldLock(t) == \E u \in Threads \ {t} : txn[u] # <<>>


\* ---------------------------------------------------------------- queries
RowsOf(R, s) == {r \in Range(R) : r.symbol = s}

\* ROW_NUMBER() OVER (PARTITION BY symbol ORDER BY timestamp DESC) = 1.
\* The partition is read from idx_symbol_timestamp, whose entries are in
\* (symbol, timestamp DESC, rowid) order: among the rows of a symbol that
\* share the greatest timestamp, row number 1 goes to the lowest rowid.
RankedFirst(R, s) ==
    CHOOSE r \in RowsOf(R, s) :
        \A q \in RowsOf(R, s) :
            \/ r.timestamp > q.timestamp
            \/ r.timestamp = q.timestamp /\ r.id <= q.id

\* the outer ORDER BY timestamp DESC over the rn = 1 rows, which arrive in
\* partition (symbol) order and keep it when their timestamps are equal
RECURSIVE OrderLatest(_)
OrderLatest(S) ==
    IF S = {} THEN <<>>
    ELSE LET first == CHOOSE r \in S : \A q \in S :
                          \/ r = q
                          \/ r.timestamp > q.timestamp
                          \/ r.timestamp = q.timestamp
                             /\ SymLess(r.symbol, q.symbol)
         IN <<Project(first)>> \o OrderLatest(S \ {first})

\* the SELECT of get_latest_data_per_symbol
LatestPerSymbol(R) ==
    OrderLatest({RankedFirst(R, s) : s \in {r.symbol : r \in Range(R)}})

\* SELECT ... FROM investment_data ORDER BY timestamp DESC: the table is
\* scanned in rowid order, which rows of equal timestamp keep
RECURSIVE OrderAll(_)
OrderAll(S) ==
    IF S = {} THEN <<>>
    ELSE LET first == CHOOSE r \in S : \A q \in S :
                          \/ r.timestamp > q.timestamp
                          \/ r.timestamp = q.timestamp /\ r.id <= q.id
         IN <<Project(first)>> \o OrderAll(S \ {first})

\* faulty variant: `if limit is not None`, so that a limit of 0 becomes LIMIT 0
ApplyLimitNotNone(s, limit) ==
    IF limit = <<>> THEN s
    ELSE IF limit[1] < 0 THEN s
    ELSE SubSeq(s, 1, IF limit[1] < Len(s) THEN limit[1] ELSE Len(s))

\* `if limit: query += f" LIMIT {limit}"`; SQLite reads a negative LIMIT
\* as no limit
ApplyLimit(s, limit) ==
    IF limit = <<>> \/ limit = <<0>> THEN s
    ELSE IF limit[1] < 0 THEN s
    ELSE SubSeq(s, 1, IF limit[1] < Len(s) THEN limit[1] ELSE Len(s))

\* the SELECT of get_all_data
AllData(R, limit) == ApplyLimit(OrderAll(Range(R)), limit)

\* what get_latest_data_per_symbol returns: the except clause turns every
\* failure into an empty list
GetLatestReturn(R, failed) == IF failed THEN <<>> ELSE LatestPerSymbol(R)

\* what get_all_data returns
GetAllReturn(R, limit, failed) == IF failed THEN <<>> ELSE AllData(R, limit)

\* --------------------------------------------------------------- endpoint
\* faulty variant: `if data.price < 0`, which lets a price of 0 through
ValidationDetailZeroPrice(d) ==
    IF FLt(d.price, 0) THEN "Price must be positive"
    ELSE IF FLt(d.atr, 0) THEN "ATR cannot be negative"
    ELSE ""

\* the checks of receive_webhook; "" when the payload passes
ValidationDetail(d) ==
    IF FLe(d.price, 0) THEN "Price must be positive"
    ELSE IF FLt(d.atr, 0) THEN "ATR cannot be negative"
    ELSE ""

\* raise HTTPException(status_code=400, detail=...)
RejectResponse(d) == [status |-> 400, detail |-> ValidationDetail(d)]

\* faulty variant: the endpoint does not look at what insert_data returned
StoreResponseUnchecked(d, success) ==
    [status |-> 200,
     body |-> [status |-> "success",
               data |-> [symbol |-> d.symbol, price |-> d.price.v,
                         atr |-> d.atr.v,
                         exit_price |-> d.price.v - d.atr.v]]]

\* the response of receive_webhook once insert_data has returned `success`
StoreResponse(d, success) ==
    IF ~success
    THEN [status |-> 500, detail |-> "Failed to store data"]
    ELSE [status |-> 200,
          body |-> [status |-> "success",
                    data |-> [symbol |-> d.symbol, price |-> d.price.v,
                              atr |-> d.atr.v,
                              exit_price |-> d.price.v - d.atr.v]]]

\* faulty variant: get_connection does not roll back
RollbackNothing(T) == T

\* conn.rollback() in get_connection: the connection's pending rows go
Rollback(T) == <<>>

\* faulty variant: INSERT OR REPLACE keyed by symbol, the new row replaces the
\* symbol's rows
CommitRowsReplace(R, T) ==
    SelectSeq(R, LAMBDA r : \A i \in 1..Len(T) : T[i].symbol # r.symbol) \o T

\* conn.commit(): the connection's pending rows join the table
CommitRows(R, T) == R \o T

\* df['exit_price'] = df['price'] - df['atr']
WithExitPrice(rec) ==
    [symbol |-> rec.symbol, price |-> rec.price, atr |-> rec.atr,
     exit_price |-> rec.price - rec.atr, timestamp |-> rec.timestamp]

RECURSIVE SumLen(_)
SumLen(S) ==
    IF S = {} THEN 0
    ELSE LET t == CHOOSE x \in S : TRUE IN Len(txn[t]) + SumLen(S \ {t})
\* rows on disk and in open transactions
Stored == Len(rows) + SumLen(Threads)

\* ------------------------------------------------------------------ state
\* DatabaseManager.__init__ and _init_db: an empty table; the constructing
\* thread (1) has its connection, the other threads have none yet
Init ==
    /\ rows = <<>>
    /\ now = 0
    /\ conn = [t \in Threads |-> t = 1]
    /\ txn = [t \in Threads |-> <<>>]
    /\ inflight = [t \in Threads |-> <<>>]
    /\ ret = [op |-> "init"]
    /\ acked = <<>>

\* where a read fails: in sqlite3.connect or in cursor.execute
ReadFailures == {"connect", "execute"}

\* sqlite3.connect is called, and can fail, only while the thread has no
\* connection
CanFail(t, fail) == fail = "connect" => ~conn[t]

\* get_connection: the thread-local connection is created on first use and
\* kept
GetConnection(t, fail) ==
    [conn EXCEPT ![t] = IF fail = "connect" THEN conn[t] ELSE TRUE]

\* the except clause of get_connection runs when the body of the with
\* statement raised, that is when a connection was yielded
AfterRead(t, fail) ==
    [txn EXCEPT ![t] = IF fail = "execute" THEN Rollback(txn[t]) ELSE txn[t]]

\* ----------------------------------------------------------- POST /webhook
\* a check of receive_webhook fails: HTTP 400, insert_data is not called
WebhookReject(t, d) ==
    /\ inflight[t] = <<>>
    /\ ValidationDetail(d) # ""
    /\ ret' = [op |-> "webhook", out |-> RejectResponse(d)]
    /\ UNCHANGED <<rows, now, conn, txn, inflight, acked>>

\* the checks pass and sqlite3.connect raises in get_connection:
\* insert_data returns False
WebhookConnectFail(t, d) ==
    /\ inflight[t] = <<>>
    /\ ValidationDetail(d) = ""
    /\ CanFail(t, "connect")
    /\ ret' = [op |-> "webhook", at |-> "connect", out |-> StoreResponse(d, FALSE)]
    /\ UNCHANGED <<rows, now, conn, txn, inflight, acked>>

\* the checks pass and cursor.execute raises (a NULL bound to a NOT NULL
\* column, the write lock held by another connection past the timeout, the
\* medium failing): rollback, insert_data returns False
WebhookExecuteFail(t, d) ==
    /\ inflight[t] = <<>>
    /\ ValidationDetail(d) = ""
    /\ conn' = GetConnection(t, "execute")
    /\ txn' = [txn EXCEPT ![t] = Rollback(txn[t])]
    /\ ret' = [op |-> "webhook", at |-> "execute", out |-> StoreResponse(d, FALSE)]
    /\ UNCHANGED <<rows, now, inflight, acked>>

\* the checks pass and cursor.execute writes the row in the connection's
\* transaction, under the write lock
WebhookExecute(t, d) ==
    /\ inflight[t] = <<>>
    /\ ValidationDetail(d) = ""
    /\ NotNullOk(d)
    /\ ~OthersHoldLock(t)
    /\ Stored < MaxRows
    /\ conn' = GetConnection(t, "none")
    /\ txn' = [txn EXCEPT ![t] = Append(txn[t], NewRow(Visible(t), d, now))]
    /\ inflight' = [inflight EXCEPT ![t] = <<d>>]
    /\ UNCHANGED <<rows, now, ret, acked>>

\* conn.commit() succeeds: insert_data returns True
WebhookCommit(t) ==
    /\ inflight[t] # <<>>
    /\ rows' = CommitRows(rows, txn[t])
    /\ txn' = [txn EXCEPT ![t] = <<>>]
    /\ inflight' = [inflight EXCEPT ![t] = <<>>]
    /\ ret' = [op |-> "webhook", by |-> t,
               out |-> StoreResponse(inflight[t][1], TRUE)]
    /\ acked' = Append(acked, [symbol |-> inflight[t][1].symbol,
                               price |-> inflight[t][1].price.v,
                               atr |-> inflight[t][1].atr.v])
    /\ UNCHANGED <<now, conn>>

\* conn.commit() raises: rollback, insert_data returns False
WebhookCommitFail(t) ==
    /\ inflight[t] # <<>>
    /\ txn' = [txn EXCEPT ![t] = Rollback(txn[t])]
    /\ inflight' = [inflight EXCEPT ![t] = <<>>]
    /\ ret' = [op |-> "webhook", at |-> "commit",
               out |-> StoreResponse(inflight[t][1], FALSE)]
    /\ UNCHANGED <<rows, now, conn, acked>>

\* ------------------------------------------------------------------ reads
\* whether a call of get_latest_data_per_symbol raises: its except clause
\* catches every Exception
GetLatestRaises(failed) == FALSE

\* GET /health of webhook_receiver.py, given what get_latest_data_per_symbol
\* returned and whether it raised
HealthResponse(data, raised) ==
    IF raised
    THEN [status |-> "unhealthy", database |-> "error"]
    ELSE [status |-> "healthy", database |-> "connected",
          records_count |-> Len(data)]

\* load_data and the exit price column of the dashboard's main
DashboardTable(data) == [i \in 1..Len(data) |-> WithExitPrice(data[i])]

\* db_manager.get_latest_data_per_symbol()
GetLatest(t) ==
    /\ inflight[t] = <<>>
    /\ conn' = GetConnection(t, "none")
    /\ ret' = [op |-> "latest", failed |-> FALSE,
               raised |-> GetLatestRaises(FALSE),
               out |-> GetLatestReturn(Visible(t), FALSE)]
    /\ UNCHANGED <<rows, now, txn, inflight, acked>>

GetLatestFail(t, fail) ==
    /\ inflight[t] = <<>>
    /\ CanFail(t, fail)
    /\ conn' = GetConnection(t, fail)
    /\ txn' = AfterRead(t, fail)
    /\ ret' = [op |-> "latest", failed |-> TRUE,
               raised |-> GetLatestRaises(TRUE),
               out |-> GetLatestReturn(Visible(t), TRUE)]
    /\ UNCHANGED <<rows, now, inflight, acked>>

\* db_manager.get_all_data(limit)
GetAll(t, limit) ==
    /\ inflight[t] = <<>>
    /\ conn' = GetConnection(t, "none")
    /\ ret' = [op |-> "all", failed |-> FALSE, limit |-> limit,
               out |-> GetAllReturn(Visible(t), limit, FALSE)]
    /\ UNCHANGED <<rows, now, txn, inflight, acked>>

\* the limit plays no part in a call that fails
GetAllFail(t, fail) ==
    /\ inflight[t] = <<>>
    /\ CanFail(t, fail)
    /\ conn' = GetConnection(t, fail)
    /\ txn' = AfterRead(t, fail)
    /\ ret' = [op |-> "all", failed |-> TRUE,
               out |-> GetAllReturn(Visible(t), <<>>, TRUE)]
    /\ UNCHANGED <<rows, now, inflight, acked>>

\* GET /health of webhook_receiver.py
HealthCheck(t) ==
    /\ inflight[t] = <<>>
    /\ conn' = GetConnection(t, "none")
    /\ ret' = [op |-> "health", failed |-> FALSE,
               out |-> HealthResponse(GetLatestReturn(Visible(t), FALSE),
                                      GetLatestRaises(FALSE))]
    /\ UNCHANGED <<rows, now, txn, inflight, acked>>

HealthCheckFail(t, fail) ==
    /\ inflight[t] = <<>>
    /\ CanFail(t, fail)
    /\ conn' = GetConnection(t, fail)
    /\ txn' = AfterRead(t, fail)
    /\ ret' = [op |-> "health", failed |-> TRUE,
               out |-> HealthResponse(GetLatestReturn(Visible(t), TRUE),
                                      GetLatestRaises(TRUE))]
    /\ UNCHANGED <<rows, now, inflight, acked>>

\* the dashboard's main: load_data, then the exit price column
Dashboard(t) ==
    /\ inflight[t] = <<>>
    /\ conn' = GetConnection(t, "none")
    /\ ret' = [op |-> "dashboard", failed |-> FALSE,
               out |-> DashboardTable(GetLatestReturn(Visible(t), FALSE))]
    /\ UNCHANGED <<rows, now, txn, inflight, acked>>

DashboardFail(t, fail) ==
    /\ inflight[t] = <<>>
    /\ CanFail(t, fail)
    /\ conn' = GetConnection(t, fail)
    /\ txn' = AfterRead(t, fail)
    /\ ret' = [op |-> "dashboard", failed |-> TRUE,
               out |-> DashboardTable(GetLatestReturn(Visible(t), TRUE))]
    /\ UNCHANGED <<rows, now, inflight, acked>>

\* GET / of webhook_receiver.py
Root ==
    /\ ret' = [op |-> "root", out |-> [status |-> "online"]]
    /\ UNCHANGED <<rows, now, conn, txn, inflight, acked>>

\* POST /alert of main.py: echoes ticker and price, stores nothing
AlertTickers == {<<65>>}
AlertPrices == {F(1)}
Alert(ticker, price) ==
    /\ ret' = [op |-> "alert",
               out |-> [ticker |-> ticker, price |-> price,
                        message |-> "Data received successfully"]]
    /\ UNCHANGED <<rows, now, conn, txn, inflight, acked>>

\* A second passes. Timestamps are only compared with each other, so a
\* second in which no row was written is not told apart from the one before
\* it: the clock is modelled as advancing past a second that a committed row
\* carries. (While a row is uncommitted its connection holds the write lock
\* and no other row can be stamped.)
Tick ==
    /\ \E r \in Range(rows) : r.timestamp = now
    /\ now' = now + 1
    /\ UNCHANGED <<rows, conn, txn, inflight, ret, acked>>

Next ==
    \/ \E t \in Threads, d \in WebhookData : WebhookReject(t, d)
    \/ \E t \in Threads, d \in WebhookData : WebhookConnectFail(t, d)
    \/ \E t \in Threads, d \in WebhookData : WebhookExecuteFail(t, d)
    \/ \E t \in Threads, d \in WebhookData : WebhookExecute(t, d)
    \/ \E t \in Threads : WebhookCommit(t)
    \/ \E t \in Threads : WebhookCommitFail(t)
    \/ \E t \in Threads : GetLatest(t)
    \/ \E t \in Threads, fail \in ReadFailures : GetLatestFail(t, fail)
    \/ \E t \in Threads, limit \in Limits : GetAll(t, limit)
    \/ \E t \in Threads, fail \in ReadFailures : GetAllFail(t, fail)
    \/ \E t \in Threads : HealthCheck(t)
    \/ \E t \in Threads, fail \in ReadFailures : HealthCheckFail(t, fail)
    \/ \E t \in Threads : Dashboard(t)
    \/ \E t \in Threads, fail \in ReadFailures : DashboardFail(t, fail)
    \/ Root
    \/ \E ticker \in AlertTickers, price \in AlertPrices : Alert(ticker, price)
    \/ Tick

Spec == Init /\ [][Next]_vars


\* ================================================================== claims
AllIdle == \A t \in Threads : inflight[t] = <<>>
AckedSymbols == {acked[i].symbol : i \in 1..Len(acked)}
Payload(r) == [symbol |-> r.symbol, price |-> r.price, atr |-> r.atr]
CountIn(s, x) == Cardinality({i \in 1..Len(s) : s[i] = x})
Projected(R) == [i \in 1..Len(R) |-> Project(R[i])]

\* the row of symbol s with the greatest (timestamp, id)
MaxTimestampId(R, s) ==
    CHOOSE r \in RowsOf(R, s) :
        \A q \in RowsOf(R, s) :
            \/ r.timestamp > q.timestamp
            \/ r.timestamp = q.timestamp /\ r.id >= q.id

\* the payload of the append of symbol s acknowledged last
LastAcked(s) ==
    acked[CHOOSE i \in 1..Len(acked) :
            /\ acked[i].symbol = s
            /\ \A j \in 1..Len(acked) : acked[j].symbol = s => j <= i]

\* a symbol with its leading and trailing white space removed
IsSpace(c) == c \in {9, 10, 11, 12, 13, 32}
RECURSIVE LStrip(_)
LStrip(s) == IF s # <<>> /\ IsSpace(Head(s)) THEN LStrip(Tail(s)) ELSE s
RECURSIVE RStrip(_)
RStrip(s) ==
    IF s # <<>> /\ IsSpace(s[Len(s)]) THEN RStrip(SubSeq(s, 1, Len(s) - 1)) ELSE s
Trim(s) == RStrip(LStrip(s))

\* the payloads the specification calls invalid
Invalid(d) == FLe(d.price, 0) \/ FLt(d.atr, 0) \/ Trim(d.symbol) = <<>>

\* the step in which thread t answers the request with payload d
Completes(t, d) ==
    \/ WebhookReject(t, d)
    \/ WebhookConnectFail(t, d)
    \/ WebhookExecuteFail(t, d)
    \/ inflight[t] = <<d>> /\ (WebhookCommit(t) \/ WebhookCommitFail(t))

\* the operations that are not POST /webhook
ReadOps == {"latest", "all", "health", "dashboard", "root", "alert"}

\* insert_data returned False: the response records where it failed
InsertFailed == ret.op = "webhook" /\ "at" \in DOMAIN ret
\* insert_data returned True
InsertConfirmed == ret.op = "webhook" /\ "by" \in DOMAIN ret

\* A commit replaces ret, so while ret holds the result of a read, rows and
\* acked are what that read saw.

\* C1: get_latest_data_per_symbol returns exactly one record for every symbol
\* ever appended, and for each symbol it is the row with the greatest
\* (timestamp, id): on equal timestamps, the one with the highest id.
C1_LatestIsMaxTimestampId ==
    (ret.op = "latest" /\ ~ret.failed) =>
        /\ Len(ret.out) = Cardinality(AckedSymbols)
        /\ {ret.out[i].symbol : i \in 1..Len(ret.out)} = AckedSymbols
        /\ \A i \in 1..Len(ret.out) :
               ret.out[i] = Project(MaxTimestampId(rows, ret.out[i].symbol))

\* C2: a webhook request whose payload is invalid (price <= 0, atr < 0, or a
\* symbol that is empty after trimming) is answered with HTTP 400 and writes
\* nothing to the store: no INSERT is executed for it and the number of rows
\* is unchanged when it is answered.
C2_InvalidRejectedBeforeWrite ==
    [][\A t \in Threads, d \in WebhookData :
         Invalid(d) =>
             /\ ~WebhookExecute(t, d)
             /\ Completes(t, d) =>
                    ret'.out.status = 400 /\ Len(rows') = Len(rows)]_vars

\* C3: the record of a symbol shown from get_latest_data_per_symbol carries
\* the price and atr of the observation of that symbol appended last, and its
\* exit price is that price minus that atr.
C3_LatestIsLastAppended ==
    (ret.op = "dashboard" /\ ~ret.failed) =>
        \A i \in 1..Len(ret.out) :
            LET rec == ret.out[i]
                last == LastAcked(rec.symbol)
            IN /\ rec.price = last.price
               /\ rec.atr = last.atr
               /\ rec.exit_price = last.price - last.atr

\* C4: whatever the interleaving of the threads' appends, when no append is
\* in flight the table holds exactly one row per acknowledged append, no two
\* rows share an id, and get_latest_data_per_symbol has one record per
\* acknowledged symbol.
C4_NoLostNoDuplicatedWrite ==
    AllIdle =>
        /\ Len(rows) = Len(acked)
        /\ \A i, j \in 1..Len(rows) : rows[i].id = rows[j].id => i = j
        /\ Len(LatestPerSymbol(rows)) = Cardinality(AckedSymbols)
\* two appends of two symbols are acknowledged, the later one made by thread
\* 2 on the connection it created, and none is in flight
C4_Witness ==
    /\ AllIdle
    /\ conn[1] /\ conn[2]
    /\ InsertConfirmed /\ ret.by = 2
    /\ Len(acked) = 2
    /\ Cardinality(AckedSymbols) = 2

\* C5: POST /webhook answers success only when the row of that request was
\* committed (the table then ends with the row the response describes, which
\* insert_data acknowledged); whenever insert_data returned False the answer
\* is HTTP 500.
C5_SuccessOnlyIfCommitted ==
    /\ InsertFailed => ret.out.status = 500
    /\ (ret.op = "webhook" /\ ret.out.status = 200) =>
           /\ InsertConfirmed
           /\ rows # <<>>
           /\ acked # <<>>
           /\ Payload(rows[Len(rows)]) = Payload(ret.out.body.data)
           /\ acked[Len(acked)] = Payload(ret.out.body.data)
\* conn.commit() failed for a request while the table holds a row
C5_Witness ==
    /\ InsertFailed /\ ret.at = "commit"
    /\ rows # <<>>

\* C6: a storage failure during a read is signalled: the call of
\* get_latest_data_per_symbol raises, an empty result means an empty table,
\* and GET /health reports an unhealthy status.
C6_ReadFailureSignalled ==
    /\ (ret.op = "latest" /\ ret.failed) => ret.raised
    /\ (ret.op = "latest" /\ ~ret.raised /\ ret.out = <<>>) => rows = <<>>
    /\ (ret.op = "health" /\ ret.failed) => ret.out.status = "unhealthy"

\* C7: get_all_data returns rows by descending timestamp; with a limit L > 0
\* exactly min(L, n) of them, those with the greatest timestamps; with no
\* limit, or one that is zero or negative, all n rows.
C7_AllOrderedAndLimited ==
    (ret.op = "all" /\ ~ret.failed) =>
        LET v == ret.out
            n == Len(rows)
            L == ret.limit
            want == IF L # <<>> /\ L[1] > 0
                    THEN (IF L[1] < n THEN L[1] ELSE n)
                    ELSE n
        IN /\ Len(v) = want
           /\ \A i, j \in 1..Len(v) :
                  i < j => v[i].timestamp >= v[j].timestamp
           /\ \A i \in 1..Len(v) :
                  CountIn(v, v[i]) <= CountIn(Projected(rows), v[i])
           /\ \A r \in Range(rows) :
                  CountIn(v, Project(r)) < CountIn(Projected(rows), Project(r))
                      => \A i \in 1..Len(v) : v[i].timestamp >= r.timestamp
\* with two rows of different timestamps, get_all_data(1) returned the later
C7_Witness ==
    /\ ret.op = "all" /\ ~ret.failed
    /\ ret.limit = <<1>>
    /\ Len(rows) = 2
    /\ rows[1].timestamp < rows[2].timestamp
    /\ ret.out = <<Project(rows[2])>>

\* C8: every row in the table, and every row written in an open transaction,
\* has price > 0 and atr >= 0.
C8_StoredRowsValid ==
    /\ \A r \in Range(rows) : r.price > 0 /\ r.atr >= 0
    /\ \A t \in Threads : \A r \in Range(txn[t]) : r.price > 0 /\ r.atr >= 0
\* a request was rejected after two were stored, one of them with atr = 0
C8_Witness ==
    /\ ret.op = "webhook" /\ ret.out.status = 400
    /\ Len(rows) = 2
    /\ \E r \in Range(rows) : r.atr = 0

\* C9: a stored row is never modified or removed, only a successful
\* POST /webhook adds one, every other operation leaves the table as it is,
\* and a read repeated with no write in between returns the same result.
C9_RowsImmutableReadsFrame ==
    [][/\ Len(rows') >= Len(rows)
       /\ SubSeq(rows', 1, Len(rows)) = rows
       /\ rows' # rows => (ret'.op = "webhook" /\ ret'.out.status = 200)
       /\ (ret' # ret /\ ret'.op \in ReadOps) => rows' = rows
       /\ (/\ ret.op \in {"latest", "health", "dashboard"}
           /\ ret'.op = ret.op
           /\ ~ret.failed /\ ~ret'.failed) => ret'.out = ret.out]_vars
\* the dashboard has read a table of two rows of two symbols
C9_Witness ==
    /\ ret.op = "dashboard" /\ ~ret.failed
    /\ Len(ret.out) = 2
    /\ Len(rows) = 2

\* C10: a call of insert_data that fails leaves no trace: once the call has
\* returned, the connection holds no uncommitted row, and the table holds
\* exactly the acknowledged payloads, in order.
C10_FailedInsertLeavesNothing ==
    /\ \A t \in Threads : inflight[t] = <<>> => txn[t] = <<>>
    /\ Len(rows) = Len(acked)
    /\ \A i \in 1..Len(rows) : Payload(rows[i]) = acked[i]
\* conn.commit() failed, the call has returned, and one row is in the table
C10_Witness ==
    /\ InsertFailed /\ ret.at = "commit"
    /\ AllIdle
    /\ Len(rows) = 1

=============================================================================
